---- MODULE Spec2Model ----
(***************************************************************************)
(* d1flash: open-drain emulation on two GPIO lines (boot, reset), their    *)
(* capture/restore life cycle, recipe selection and the timed sequence of  *)
(* main with its scoped background reset task.                             *)
(*                                                                         *)
(* Values of the crate's own enums are the strings "Low", "High", "Input", *)
(* "Output", "Alt0".."Alt5"; values of the GPIO library's enums carry the  *)
(* prefix "r" ("rLow", "rOutput", ...), so that every From conversion of   *)
(* interface.rs is a real mapping.  Option<T> is a sequence of length <= 1.*)
(***************************************************************************)
EXTENDS Integers, Sequences, FiniteSets, TLC

VARIABLES
    hw,           \* per pin: the GPIO registers [mode, latch, pull]
    lineIn,       \* per pin: the level the line reads when it is not driven
    od,           \* per pin: the OpenDrainPin object (with its IoPin)
    call,         \* per thread: the OpenDrainPin operation in progress
    pc,           \* per thread: position in main / in the reset task
    now,          \* wall clock, ms
    wake,         \* per thread: the time its current sleep / child ends
    cli,          \* parsed command line [recipe, reset]
    config,       \* loaded configuration
    gpio,         \* whether Gpio::new() has succeeded
    recipe,       \* Option<Recipe>: the recipe selected by main
    child,        \* the external process [status, code]
    result,       \* how main ended: "-", "Ok", "Err", "Panic"
    pre,          \* history: the pin configuration before the program ran
    tdCount,      \* history: per pin, runs of Drop for OpenDrainPin
    hwResetRuns,  \* history: per pin, runs of the IoPin reset-on-drop
    lastSet,      \* history: per pin, the state asked by the last returned set
    log           \* history: the events of a run of main [ev, pin, th, t]

vars == <<hw, lineIn, od, call, pc, now, wake, cli, config, gpio, recipe,
          child, result, pre, tdCount, hwResetRuns, lastSet, log>>

pinVars == <<hw, od, call, tdCount, hwResetRuns, lastSet, log>>
envVars == <<lineIn, pre, cli, config>>
progVars == <<pc, now, wake, gpio, recipe, child, result>>

----------------------------------------------------------------------------
(* Option<T> *)

None == <<>>

Some(x) == <<x>>

Option(S) == {None} \cup {Some(x) : x \in S}

unwrap_or(o, d) == IF o = None THEN d ELSE o[1]

----------------------------------------------------------------------------
(* interface.rs: enums and conversions *)

Pins == {"boot", "reset"}

Threads == {"main", "bg"}

Level == {"Low", "High"}

Mode == {"Input", "Output", "Alt0", "Alt1", "Alt2", "Alt3", "Alt4", "Alt5"}

OpenDrainState == {"Low", "Open"}

RLevel == {"rLow", "rHigh"}

RMode == {"rInput", "rOutput", "rAlt0", "rAlt1", "rAlt2", "rAlt3", "rAlt4", "rAlt5"}

PullUpDown == {"Off", "PullDown", "PullUp"}

LevelToRppal(value) ==
    CASE value = "Low" -> "rLow"
      [] value = "High" -> "rHigh"

LevelFromRppal(value) ==
    CASE value = "rLow" -> "Low"
      [] value = "rHigh" -> "High"

LevelToPull(value) ==
    CASE value = "Low" -> "PullDown"
      [] value = "High" -> "PullUp"

ModeToRppal(value) ==
    CASE value = "Input" -> "rInput"
      [] value = "Output" -> "rOutput"
      [] value = "Alt0" -> "rAlt0"
      [] value = "Alt1" -> "rAlt1"
      [] value = "Alt2" -> "rAlt2"
      [] value = "Alt3" -> "rAlt3"
      [] value = "Alt4" -> "rAlt4"
      [] value = "Alt5" -> "rAlt5"

ModeFromRppal(value) ==
    CASE value = "rInput" -> "Input"
      [] value = "rOutput" -> "Output"
      [] value = "rAlt0" -> "Alt0"
      [] value = "rAlt1" -> "Alt1"
      [] value = "rAlt2" -> "Alt2"
      [] value = "rAlt3" -> "Alt3"
      [] value = "rAlt4" -> "Alt4"
      [] value = "rAlt5" -> "Alt5"

StateToRppalMode(value) ==
    CASE value = "Low" -> "rOutput"
      [] value = "Open" -> "rInput"

PinDropState == [mode : Option(Mode), level : Option(Level), pull : Option(Level)]

----------------------------------------------------------------------------
(* The GPIO library calls made by interface.rs, on one pin's registers.    *)
(* A write to the output latch is kept in every mode and drives the line   *)
(* only in Output mode; read returns the line's level.                     *)

pin_mode(h) == h.mode

pin_read(h, ext) == IF h.mode = "rOutput" THEN h.latch ELSE ext

io_set_mode(h, m) == [h EXCEPT !.mode = m]

io_set_low(h) == [h EXCEPT !.latch = "rLow"]

io_write(h, l) == [h EXCEPT !.latch = l]

io_set_pullupdown(h, pud) == [h EXCEPT !.pull = pud]

----------------------------------------------------------------------------
(* OpenDrainPin: the object and its operations, one register access per    *)
(* step.  call[t] is thread t's operation in progress: its name, its pin,  *)
(* the next step, the requested state (arg), the drop policy handed to new *)
(* (fin) and the caller (outer: "new", "set" or "direct").                 *)

NoPin ==
    [life |-> "none", state |-> None, initial_state |-> None,
     final_state |-> None, reset_on_drop |-> FALSE, prev_mode |-> None]

NoCall ==
    [op |-> "none", pin |-> "-", step |-> 0, arg |-> "-", fin |-> None,
     outer |-> "-"]

Frame(op, p, arg, fin, outer) ==
    [op |-> op, pin |-> p, step |-> 1, arg |-> arg, fin |-> fin, outer |-> outer]

Idle(t) == call[t].op = "none"

InProgress(p) == \E t \in Threads : call[t].op # "none" /\ call[t].pin = p

Harness == pc["main"] = "harness"

\* the history of completed operations is kept for runs of main only
Logged(ev, p, t) ==
    IF Harness THEN log ELSE Append(log, [ev |-> ev, pin |-> p, th |-> t, t |-> now])

\* a capture that takes the mode new is about to set instead of reading it
CaptureInitial_AfterIo(h, ext) ==
    [mode |-> "Input",
     level |-> LevelFromRppal(pin_read(h, ext)),
     pull |-> None]

\* new, lines 128-132: the captured initial state
CaptureInitial(h, ext) ==
    [mode |-> ModeFromRppal(pin_mode(h)),
     level |-> LevelFromRppal(pin_read(h, ext)),
     pull |-> None]

\* new, line 133: pin.into_io(state.into()) switches the mode at once
into_io(h, state) == io_set_mode(h, StateToRppalMode(state))

\* a new that leaves the library's reset-on-drop switched on
ResetOnDropSetting_Kept == TRUE

\* new, line 134: the value given to set_reset_on_drop
ResetOnDropSetting == FALSE

\* set, lines 162-167
Dispatch(state) ==
    CASE state = "Low" -> "set_low"
      [] state = "Open" -> "set_open"

\* a set_low that writes the level twice and never switches the mode
SetLowHw_NoMode(h, step) ==
    CASE step = 1 -> io_set_low(h)
      [] step = 3 -> io_set_low(h)
      [] OTHER -> h

\* a set_low whose first write raises the level instead of lowering it
SetLowHw_HighFirst(h, step) ==
    CASE step = 1 -> io_write(h, "rHigh")
      [] step = 2 -> io_set_mode(h, "rOutput")
      [] step = 3 -> io_set_low(h)
      [] OTHER -> h

\* set_low, lines 148-150
SetLowHw(h, step) ==
    CASE step = 1 -> io_set_low(h)
      [] step = 2 -> io_set_mode(h, "rOutput")
      [] step = 3 -> io_set_low(h)
      [] OTHER -> h

\* a set_open that leaves the pull resistor alone
SetOpenHw_NoPull(h, step) ==
    CASE step = 1 -> io_set_mode(h, "rInput")
      [] OTHER -> h

\* set_open, lines 156-157
SetOpenHw(h, step) ==
    CASE step = 1 -> io_set_mode(h, "rInput")
      [] step = 2 -> io_set_pullupdown(h, "PullUp")
      [] OTHER -> h

\* drop, lines 172-177
DropMode(o) == unwrap_or(o.final_state[1].mode, o.initial_state[1].mode)

\* a drop that always restores the captured level
DropLevel_Captured(o) == o.initial_state[1].level

\* drop, lines 178-183
DropLevel(o) == unwrap_or(o.final_state[1].level, o.initial_state[1].level)

\* a drop that switches the pull off when the policy names none
DropHw_PullOff(h, o, step) ==
    CASE step = 1 -> io_set_mode(h, ModeToRppal(DropMode(o)))
      [] step = 2 -> io_write(h, LevelToRppal(DropLevel(o)))
      [] step = 3 -> IF o.final_state[1].pull # None
                     THEN io_set_pullupdown(h, LevelToPull(o.final_state[1].pull[1]))
                     ELSE io_set_pullupdown(h, "Off")
      [] OTHER -> h

\* drop, lines 172-186
DropHw(h, o, step) ==
    CASE step = 1 -> io_set_mode(h, ModeToRppal(DropMode(o)))
      [] step = 2 -> io_write(h, LevelToRppal(DropLevel(o)))
      [] step = 3 -> IF o.final_state[1].pull # None
                     THEN io_set_pullupdown(h, LevelToPull(o.final_state[1].pull[1]))
                     ELSE h
      [] OTHER -> h

\* the IoPin field is dropped after drop's body: the library resets the pin
\* to the mode it had before into_io, with the pull off, unless told not to
IoPinDrop(h, o) ==
    IF o.reset_on_drop
    THEN [h EXCEPT !.mode = o.prev_mode[1], !.pull = "Off"]
    ELSE h

NewStep(t) ==
    LET f == call[t]
        p == f.pin
    IN  /\ f.op = "new"
        /\ UNCHANGED <<envVars, progVars, tdCount, hwResetRuns, lastSet, log>>
        /\ CASE f.step = 1 ->
                  /\ od' = [od EXCEPT ![p].initial_state =
                                          Some(CaptureInitial(hw[p], lineIn[p])),
                                      ![p].life = "constructing"]
                  /\ call' = [call EXCEPT ![t].step = 2]
                  /\ UNCHANGED hw
             [] f.step = 2 ->
                  /\ hw' = [hw EXCEPT ![p] = into_io(hw[p], f.arg)]
                  /\ od' = [od EXCEPT ![p].prev_mode = Some(pin_mode(hw[p])),
                                      ![p].reset_on_drop = TRUE]
                  /\ call' = [call EXCEPT ![t].step = 3]
             [] f.step = 3 ->
                  /\ od' = [od EXCEPT ![p].reset_on_drop = ResetOnDropSetting]
                  /\ call' = [call EXCEPT ![t].step = 4]
                  /\ UNCHANGED hw
             [] OTHER ->
                  /\ od' = [od EXCEPT ![p].state = Some(f.arg),
                                      ![p].final_state = f.fin,
                                      ![p].life = "live"]
                  /\ call' = [call EXCEPT ![t] =
                                 Frame(Dispatch(f.arg), p, f.arg, None, "new")]
                  /\ UNCHANGED hw

SetLowStep(t) ==
    LET f == call[t]
        p == f.pin
    IN  /\ f.op = "set_low"
        /\ UNCHANGED <<envVars, progVars, tdCount, hwResetRuns>>
        /\ hw' = [hw EXCEPT ![p] = SetLowHw(hw[p], f.step)]
        /\ IF f.step < 4
           THEN /\ call' = [call EXCEPT ![t].step = f.step + 1]
                /\ UNCHANGED <<od, lastSet, log>>
           ELSE /\ od' = [od EXCEPT ![p].state = Some("Low")]
                /\ call' = [call EXCEPT ![t] = NoCall]
                /\ lastSet' = [lastSet EXCEPT ![p] = Some("Low")]
                /\ log' = Logged(IF f.outer = "new" THEN "new" ELSE "Low", p, t)

SetOpenStep(t) ==
    LET f == call[t]
        p == f.pin
    IN  /\ f.op = "set_open"
        /\ UNCHANGED <<envVars, progVars, tdCount, hwResetRuns>>
        /\ hw' = [hw EXCEPT ![p] = SetOpenHw(hw[p], f.step)]
        /\ IF f.step < 3
           THEN /\ call' = [call EXCEPT ![t].step = f.step + 1]
                /\ UNCHANGED <<od, lastSet, log>>
           ELSE /\ od' = [od EXCEPT ![p].state = Some("Open")]
                /\ call' = [call EXCEPT ![t] = NoCall]
                /\ lastSet' = [lastSet EXCEPT ![p] = Some("Open")]
                /\ log' = Logged(IF f.outer = "new" THEN "new" ELSE "Open", p, t)

DropStep(t) ==
    LET f == call[t]
        p == f.pin
    IN  /\ f.op = "drop"
        /\ UNCHANGED <<envVars, progVars, lastSet>>
        /\ IF f.step < 4
           THEN /\ hw' = [hw EXCEPT ![p] = DropHw(hw[p], od[p], f.step)]
                /\ od' = [od EXCEPT ![p].life = "dropping"]
                /\ tdCount' = IF f.step = 1
                              THEN [tdCount EXCEPT ![p] = @ + 1]
                              ELSE tdCount
                /\ call' = [call EXCEPT ![t].step = f.step + 1]
                /\ UNCHANGED <<hwResetRuns, log>>
           ELSE /\ hw' = [hw EXCEPT ![p] = IoPinDrop(hw[p], od[p])]
                /\ od' = [od EXCEPT ![p].life = "dropped"]
                /\ hwResetRuns' = IF od[p].reset_on_drop
                                  THEN [hwResetRuns EXCEPT ![p] = @ + 1]
                                  ELSE hwResetRuns
                /\ call' = [call EXCEPT ![t] = NoCall]
                /\ tdCount' = tdCount
                /\ log' = Logged("drop", p, t)

----------------------------------------------------------------------------
(* Recipe and Configuration (interface.rs lines 211-259) *)

Recipe_new(command, arguments) == [command |-> command, arguments |-> arguments]

\* the recipes a configuration file may name
RecipePool ==
    {Recipe_new("esptool", <<"write_flash">>), Recipe_new("monitor", <<>>)}

NoChild == [status |-> "none", code |-> 0]

\* impl From<Vec<String>> for Recipe, lines 236-248; value[1..] of an empty
\* vector is out of range and panics
RecipeFrom(value) ==
    LET command == IF value = <<>> THEN "" ELSE value[1]
    IN  IF Len(value) < 1
        THEN [command |-> command, arguments |-> <<>>, panicked |-> TRUE]
        ELSE Recipe_new(command, SubSeq(value, 2, Len(value)))

\* a selection that takes the table entry whenever the first token names one
SelectRecipe_FirstKey(recipes, default_recipe, tokens) ==
    CASE Len(tokens) = 0 -> recipes[default_recipe]
      [] Len(tokens) >= 1 /\ tokens[1] \in DOMAIN recipes -> recipes[tokens[1]]
      [] OTHER -> RecipeFrom(tokens)

\* main, lines 61-67
SelectRecipe(recipes, default_recipe, tokens) ==
    CASE Len(tokens) = 0 -> recipes[default_recipe]
      [] Len(tokens) = 1 /\ tokens[1] \in DOMAIN recipes -> recipes[tokens[1]]
      [] OTHER -> RecipeFrom(tokens)

----------------------------------------------------------------------------
(* A single OpenDrainPin driven by an arbitrary caller: new with either    *)
(* state and any drop policy on a pin in any prior configuration, then any *)
(* sequence of set_low / set_open / set, then drop.                        *)

HarnessPin == "boot"

HwStates == [mode : RMode, latch : RLevel, pull : PullUpDown]

IdleHw == [mode |-> "rInput", latch |-> "rLow", pull |-> "Off"]

NoPolicy == [mode |-> None, level |-> None, pull |-> None]

Snapshot(h, ext) == [hw |-> h, read |-> pin_read(h, ext)]

InitPin ==
    /\ \E h \in HwStates, ext \in RLevel :
         /\ hw = [p \in Pins |-> IF p = HarnessPin THEN h ELSE IdleHw]
         /\ lineIn = [p \in Pins |-> IF p = HarnessPin THEN ext ELSE "rLow"]
    /\ pre = [p \in Pins |-> Snapshot(hw[p], lineIn[p])]
    /\ \E policy \in PinDropState :
         config = [boot |-> [state |-> policy], reset |-> [state |-> NoPolicy],
                   default_recipe |-> "flash",
                   recipes |-> [n \in {"flash"} |-> Recipe_new("esptool", <<"write_flash">>)]]
    /\ cli = [recipe |-> <<>>, reset |-> None]
    /\ od = [p \in Pins |-> NoPin]
    /\ call = [t \in Threads |-> NoCall]
    /\ pc = [main |-> "harness", bg |-> "off"]
    /\ now = 0
    /\ wake = [t \in Threads |-> 0]
    /\ gpio = FALSE
    /\ recipe = None
    /\ child = NoChild
    /\ result = "-"
    /\ tdCount = [p \in Pins |-> 0]
    /\ hwResetRuns = [p \in Pins |-> 0]
    /\ lastSet = [p \in Pins |-> None]
    /\ log = <<>>

StartCall(t, f) ==
    /\ Idle(t)
    /\ call' = [call EXCEPT ![t] = f]
    /\ UNCHANGED <<hw, od, tdCount, hwResetRuns, lastSet, log, envVars>>

H_New(state) ==
    /\ Harness
    /\ od[HarnessPin].life = "none"
    /\ StartCall("main", Frame("new", HarnessPin, state,
                               Some(config[HarnessPin].state), "direct"))
    /\ UNCHANGED progVars

H_SetLow ==
    /\ Harness
    /\ od[HarnessPin].life = "live"
    /\ StartCall("main", Frame("set_low", HarnessPin, "Low", None, "direct"))
    /\ UNCHANGED progVars

H_SetOpen ==
    /\ Harness
    /\ od[HarnessPin].life = "live"
    /\ StartCall("main", Frame("set_open", HarnessPin, "Open", None, "direct"))
    /\ UNCHANGED progVars

H_Set(state) ==
    /\ Harness
    /\ od[HarnessPin].life = "live"
    /\ StartCall("main", Frame(Dispatch(state), HarnessPin, state, None, "set"))
    /\ UNCHANGED progVars

H_Drop ==
    /\ Harness
    /\ od[HarnessPin].life = "live"
    /\ StartCall("main", Frame("drop", HarnessPin, "-", None, "direct"))
    /\ UNCHANGED progVars

PinSteps ==
    \E t \in Threads : NewStep(t) \/ SetLowStep(t) \/ SetOpenStep(t) \/ DropStep(t)

NextPin ==
    \/ \E state \in OpenDrainState : H_New(state)
    \/ H_SetLow
    \/ H_SetOpen
    \/ \E state \in OpenDrainState : H_Set(state)
    \/ H_Drop
    \/ PinSteps

SpecPin == InitPin /\ [][NextPin]_vars

----------------------------------------------------------------------------
(* main (bin/main.rs) and its scoped reset task.  Time is in ms.  A sleep  *)
(* of d ms ends d ms later or later still (thread::sleep never returns     *)
(* early and may return late); everything else takes no time.              *)

BootDelay == 20

ResetPulse == 100

DefaultResetDelay == 2000

MaxOversleep == 20

Oversleep == {0, MaxOversleep}

\* explicit values of the reset flag, ms.  main reads cli.reset as an optional
\* flag with an optional delay (lines 47-48: `if let Some(reset_flag)`, then
\* `reset_flag.or(2000)`), which is Option(Option(ResetDelays)) here; the
\* declaration in interface.rs (line 278, bool) is not what main uses.
ResetDelays == {0}

\* run times of the external command, ms
RecipeDurations == {10, 2100, 3000}

ExitCodes == {0, 1}

\* what main may find and be given: each pin's prior registers and line
\* level, and the drop policies of the configuration file
MainSetups ==
    {[boot |-> [hw |-> [mode |-> "rInput", latch |-> "rHigh", pull |-> "Off"],
                ext |-> "rHigh", state |-> NoPolicy],
      reset |-> [hw |-> [mode |-> "rOutput", latch |-> "rHigh", pull |-> "PullDown"],
                 ext |-> "rLow", state |-> NoPolicy]],
     [boot |-> [hw |-> [mode |-> "rAlt0", latch |-> "rLow", pull |-> "PullDown"],
                ext |-> "rHigh",
                state |-> [mode |-> Some("Output"), level |-> Some("High"),
                           pull |-> Some("Low")]],
      reset |-> [hw |-> [mode |-> "rInput", latch |-> "rHigh", pull |-> "Off"],
                 ext |-> "rLow",
                 state |-> [mode |-> Some("Input"), level |-> None,
                            pull |-> Some("High")]]]}

MainTokens == {<<>>, <<"ls", "-la">>}

Init ==
    /\ \E s \in MainSetups, d \in {"flash", "missing"} :
         /\ hw = [p \in Pins |-> s[p].hw]
         /\ lineIn = [p \in Pins |-> s[p].ext]
         /\ config = [boot |-> [state |-> s.boot.state],
                      reset |-> [state |-> s.reset.state],
                      default_recipe |-> d,
                      recipes |-> [n \in {"flash"} |->
                                      Recipe_new("esptool", <<"write_flash">>)]]
    /\ pre = [p \in Pins |-> Snapshot(hw[p], lineIn[p])]
    /\ \E tokens \in MainTokens, flag \in Option(Option(ResetDelays)) :
         cli = [recipe |-> tokens, reset |-> flag]
    /\ od = [p \in Pins |-> NoPin]
    /\ call = [t \in Threads |-> NoCall]
    /\ pc = [main |-> "load", bg |-> "off"]
    /\ now = 0
    /\ wake = [t \in Threads |-> 0]
    /\ gpio = FALSE
    /\ recipe = None
    /\ child = NoChild
    /\ result = "-"
    /\ tdCount = [p \in Pins |-> 0]
    /\ hwResetRuns = [p \in Pins |-> 0]
    /\ lastSet = [p \in Pins |-> None]
    /\ log = <<>>

At(t, l) == pc[t] = l /\ Idle(t)

Goto(t, l) == pc' = [pc EXCEPT ![t] = l]

Event(ev, t) == Append(log, [ev |-> ev, pin |-> "-", th |-> t, t |-> now])

\* a statement of thread t at label l that calls a pin operation
PinCall(t, l, f, next) ==
    /\ At(t, l)
    /\ call' = [call EXCEPT ![t] = f]
    /\ Goto(t, next)
    /\ UNCHANGED <<hw, od, tdCount, hwResetRuns, lastSet, log, envVars,
                   now, wake, gpio, recipe, child, result>>

\* std::thread::sleep(Duration::from_millis(d)) at label l
Sleep(t, l, d, asleep) ==
    /\ At(t, l)
    /\ \E over \in Oversleep : wake' = [wake EXCEPT ![t] = now + d + over]
    /\ Goto(t, asleep)
    /\ UNCHANGED <<pinVars, envVars, now, gpio, recipe, child, result>>

\* where each sleep resumes
SleepNext ==
    [zz35 |-> "reset_low38", zz39 |-> "reset_open42", zz43 |-> "spawn",
     zz77 |-> "reset_low80", zz83 |-> "reset_open84",
     zz48 |-> "b_boot_open49", zz52 |-> "b_reset_open55", zz56 |-> "b_end"]

WakeUp(t) ==
    /\ pc[t] \in DOMAIN SleepNext
    /\ now >= wake[t]
    /\ Goto(t, SleepNext[pc[t]])
    /\ UNCHANGED <<pinVars, envVars, now, wake, gpio, recipe, child, result>>

\* main returns Err(..) (a `?` or bail!): its locals are dropped
Fail(t, l) ==
    /\ At(t, l)
    /\ result' = "Err"
    /\ Goto(t, "unwind")
    /\ UNCHANGED <<pinVars, envVars, now, wake, gpio, recipe, child>>

\* lines 9-13: the configuration may fail to load or to deserialize
M_LoadConfig ==
    \/ /\ At("main", "load")
       /\ Goto("main", "check")
       /\ UNCHANGED <<pinVars, envVars, now, wake, gpio, recipe, child, result>>
    \/ Fail("main", "load")

\* a check that lets every default recipe through
DefaultKnown_Always == TRUE

\* line 15: config.recipes.contains_key(&config.default_recipe)
DefaultKnown == config.default_recipe \in DOMAIN config.recipes

\* lines 15-17
M_CheckDefault ==
    IF DefaultKnown
    THEN /\ At("main", "check")
         /\ Goto("main", "gpio")
         /\ UNCHANGED <<pinVars, envVars, now, wake, gpio, recipe, child, result>>
    ELSE Fail("main", "check")

\* line 20
M_GpioNew ==
    \/ /\ At("main", "gpio")
       /\ gpio' = TRUE
       /\ Goto("main", "get_boot")
       /\ UNCHANGED <<pinVars, envVars, now, wake, recipe, child, result>>
    \/ Fail("main", "gpio")

\* lines 21-25
M_NewBoot ==
    \/ PinCall("main", "get_boot",
               Frame("new", "boot", "Open", Some(config.boot.state), "direct"),
               "get_reset")
    \/ Fail("main", "get_boot")

\* lines 26-30
M_NewReset ==
    \/ PinCall("main", "get_reset",
               Frame("new", "reset", "Open", Some(config.reset.state), "direct"),
               "boot_low34")
    \/ Fail("main", "get_reset")

\* line 34
M_BootLow ==
    PinCall("main", "boot_low34", Frame("set_low", "boot", "Low", None, "direct"),
            "sleep35")

\* line 35
M_Sleep35 == Sleep("main", "sleep35", BootDelay, "zz35")

\* line 38
M_ResetLow ==
    PinCall("main", "reset_low38", Frame("set_low", "reset", "Low", None, "direct"),
            "sleep39")

\* a reset pulse held for the boot delay only
M_Sleep39_Short == Sleep("main", "sleep39", BootDelay, "zz39")

\* line 39
M_Sleep39 == Sleep("main", "sleep39", ResetPulse, "zz39")

\* line 42
M_ResetOpen ==
    PinCall("main", "reset_open42", Frame("set_open", "reset", "Open", None, "direct"),
            "sleep43")

\* line 43
M_Sleep43 == Sleep("main", "sleep43", ResetPulse, "zz43")

\* lines 45-46: the scope starts and spawns the reset task
M_Spawn ==
    /\ At("main", "spawn")
    /\ pc' = [pc EXCEPT !["main"] = "select", !["bg"] = "b_check47"]
    /\ log' = Event("bg_start", "main")
    /\ UNCHANGED <<hw, od, call, tdCount, hwResetRuns, lastSet, envVars,
                   now, wake, gpio, recipe, child, result>>

\* lines 61-67
M_Select ==
    /\ At("main", "select")
    /\ recipe' = Some(SelectRecipe(config.recipes, config.default_recipe, cli.recipe))
    /\ Goto("main", "execute")
    /\ UNCHANGED <<pinVars, envVars, now, wake, gpio, child, result>>

\* an execute whose spawn error is dropped instead of unwrapped
M_Execute_IgnoreErr ==
    /\ At("main", "execute")
    /\ UNCHANGED <<hw, od, call, tdCount, hwResetRuns, lastSet, envVars,
                   now, gpio, recipe, result>>
    /\ \/ \E dur \in RecipeDurations, code \in ExitCodes :
            /\ child' = [status |-> "running", code |-> code]
            /\ wake' = [wake EXCEPT !["main"] = now + dur]
            /\ log' = Event("recipe_start", "main")
            /\ Goto("main", "wait_child")
       \/ /\ child' = [status |-> "spawn_failed", code |-> 0]
          /\ log' = Event("recipe_failed", "main")
          /\ Goto("main", "join71")
          /\ UNCHANGED wake

\* line 69, recipe.execute(): the command runs for some time and exits with
\* some status (Ok(status), which expect lets through), or cannot be spawned
\* (Err, on which expect panics inside the scope)
M_Execute ==
    /\ At("main", "execute")
    /\ UNCHANGED <<hw, od, call, tdCount, hwResetRuns, lastSet, envVars,
                   now, gpio, recipe>>
    /\ \/ \E dur \in RecipeDurations, code \in ExitCodes :
            /\ child' = [status |-> "running", code |-> code]
            /\ wake' = [wake EXCEPT !["main"] = now + dur]
            /\ log' = Event("recipe_start", "main")
            /\ Goto("main", "wait_child")
            /\ UNCHANGED result
       \/ /\ child' = [status |-> "spawn_failed", code |-> 0]
          /\ result' = "Panic"
          /\ log' = Event("recipe_failed", "main")
          /\ Goto("main", "scope_panic")
          /\ UNCHANGED wake

\* line 69: Command::status() returns when the child has exited
M_ChildExit ==
    /\ At("main", "wait_child")
    /\ now >= wake["main"]
    /\ child' = [child EXCEPT !.status = "exited"]
    /\ log' = Event("recipe_exit", "main")
    /\ Goto("main", "join71")
    /\ UNCHANGED <<hw, od, call, tdCount, hwResetRuns, lastSet, envVars,
                   now, wake, gpio, recipe, result>>

\* a scope that goes on without joining the reset task
M_Join_NoWait ==
    /\ At("main", "join71")
    /\ Goto("main", "boot_open76")
    /\ UNCHANGED <<pinVars, envVars, now, wake, gpio, recipe, child, result>>

\* line 71: join returns once the reset task has finished
M_Join ==
    /\ At("main", "join71")
    /\ pc["bg"] = "done"
    /\ Goto("main", "boot_open76")
    /\ UNCHANGED <<pinVars, envVars, now, wake, gpio, recipe, child, result>>

\* a failure that ends the process on the spot, dropping nothing
M_ScopePanic_Abort ==
    /\ At("main", "scope_panic")
    /\ Goto("main", "exited")
    /\ UNCHANGED <<pinVars, envVars, now, wake, gpio, recipe, child, result>>

\* a panic that unwinds out of the scope while the reset task still runs
M_ScopePanic_NoWait ==
    /\ At("main", "scope_panic")
    /\ Goto("main", "unwind")
    /\ UNCHANGED <<pinVars, envVars, now, wake, gpio, recipe, child, result>>

\* line 72: a panic in the scope's closure is resumed only after every
\* scoped thread has finished
M_ScopePanic ==
    /\ At("main", "scope_panic")
    /\ pc["bg"] = "done"
    /\ Goto("main", "unwind")
    /\ UNCHANGED <<pinVars, envVars, now, wake, gpio, recipe, child, result>>

\* a step 6 that pulses reset without releasing boot first
M_BootOpen_Skip ==
    /\ At("main", "boot_open76")
    /\ Goto("main", "sleep77")
    /\ UNCHANGED <<pinVars, envVars, now, wake, gpio, recipe, child, result>>

\* line 76
M_BootOpen ==
    PinCall("main", "boot_open76", Frame("set_open", "boot", "Open", None, "direct"),
            "sleep77")

\* line 77
M_Sleep77 == Sleep("main", "sleep77", BootDelay, "zz77")

\* line 80
M_ResetLow80 ==
    PinCall("main", "reset_low80", Frame("set_low", "reset", "Low", None, "direct"),
            "sleep83")

\* line 83
M_Sleep83 == Sleep("main", "sleep83", ResetPulse, "zz83")

\* line 84
M_ResetOpen84 ==
    PinCall("main", "reset_open84", Frame("set_open", "reset", "Open", None, "direct"),
            "return88")

\* line 88
M_ReturnOk ==
    /\ At("main", "return88")
    /\ result' = "Ok"
    /\ Goto("main", "unwind")
    /\ UNCHANGED <<pinVars, envVars, now, wake, gpio, recipe, child>>

\* line 89, and every early exit: the locals are dropped in reverse order of
\* declaration, reset before boot
M_DropReset ==
    /\ od["reset"].life = "live"
    /\ PinCall("main", "unwind", Frame("drop", "reset", "-", None, "direct"), "unwind")

M_DropBoot ==
    /\ od["reset"].life # "live"
    /\ od["boot"].life = "live"
    /\ PinCall("main", "unwind", Frame("drop", "boot", "-", None, "direct"), "unwind")

M_Exit ==
    /\ At("main", "unwind")
    /\ \A p \in Pins : od[p].life # "live"
    /\ Goto("main", "exited")
    /\ UNCHANGED <<pinVars, envVars, now, wake, gpio, recipe, child, result>>

\* a task that resets at once when the flag is absent
B_Check_FallThrough ==
    /\ At("bg", "b_check47")
    /\ Goto("bg", IF cli.reset # None THEN "b_sleep48" ELSE "b_boot_open49")
    /\ UNCHANGED <<pinVars, envVars, now, wake, gpio, recipe, child, result>>

\* line 47: the task does nothing unless the reset flag was given
B_Check ==
    /\ At("bg", "b_check47")
    /\ Goto("bg", IF cli.reset # None THEN "b_sleep48" ELSE "b_end")
    /\ UNCHANGED <<pinVars, envVars, now, wake, gpio, recipe, child, result>>

\* a delay that defaults to nothing
B_Sleep48_NoDefault ==
    Sleep("bg", "b_sleep48", unwrap_or(cli.reset[1], 0), "zz48")

\* line 48
B_Sleep48 ==
    Sleep("bg", "b_sleep48", unwrap_or(cli.reset[1], DefaultResetDelay), "zz48")

\* line 49
B_BootOpen ==
    PinCall("bg", "b_boot_open49", Frame("set_open", "boot", "Open", None, "direct"),
            "b_reset_low51")

\* line 51
B_ResetLow ==
    PinCall("bg", "b_reset_low51", Frame("set_low", "reset", "Low", None, "direct"),
            "b_sleep52")

\* line 52
B_Sleep52 == Sleep("bg", "b_sleep52", ResetPulse, "zz52")

\* line 55
B_ResetOpen ==
    PinCall("bg", "b_reset_open55", Frame("set_open", "reset", "Open", None, "direct"),
            "b_sleep56")

\* line 56
B_Sleep56 == Sleep("bg", "b_sleep56", ResetPulse, "zz56")

\* line 58: the task's closure returns
B_End ==
    /\ At("bg", "b_end")
    /\ Goto("bg", "done")
    /\ log' = Event("bg_done", "bg")
    /\ UNCHANGED <<hw, od, call, tdCount, hwResetRuns, lastSet, envVars,
                   now, wake, gpio, recipe, child, result>>

\* a thread waiting for a time to come
TimeBlocked(t) ==
    /\ Idle(t)
    /\ pc[t] \in DOMAIN SleepNext \cup {"wait_child"}
    /\ wake[t] > now

\* a thread that cannot take a step at the present time
Blocked(t) ==
    \/ TimeBlocked(t)
    \/ pc[t] \in {"off", "done", "exited"}
    \/ pc[t] \in {"join71", "scope_panic"} /\ pc["bg"] # "done"

Earliest(S) == CHOOSE x \in S : \A y \in S : x <= y

\* time passes when every thread waits, up to the next time waited for
Advance ==
    /\ \A t \in Threads : Blocked(t)
    /\ \E t \in Threads : TimeBlocked(t)
    /\ now' = Earliest({wake[t] : t \in {u \in Threads : TimeBlocked(u)}})
    /\ UNCHANGED <<pinVars, envVars, pc, wake, gpio, recipe, child, result>>

Next ==
    \/ M_LoadConfig \/ M_CheckDefault \/ M_GpioNew \/ M_NewBoot \/ M_NewReset
    \/ M_BootLow \/ M_Sleep35 \/ M_ResetLow \/ M_Sleep39 \/ M_ResetOpen \/ M_Sleep43
    \/ M_Spawn \/ M_Select \/ M_Execute \/ M_ChildExit \/ M_Join \/ M_ScopePanic
    \/ M_BootOpen \/ M_Sleep77 \/ M_ResetLow80 \/ M_Sleep83 \/ M_ResetOpen84
    \/ M_ReturnOk \/ M_DropReset \/ M_DropBoot \/ M_Exit
    \/ B_Check \/ B_Sleep48 \/ B_BootOpen \/ B_ResetLow \/ B_Sleep52
    \/ B_ResetOpen \/ B_Sleep56 \/ B_End
    \/ \E t \in Threads : WakeUp(t)
    \/ PinSteps
    \/ Advance

Spec == Init /\ [][Next]_vars

----------------------------------------------------------------------------
(* Recipe selection alone: any recipe table with a valid default and any   *)
(* token list, to which lines 61-67 of main are applied.                   *)

MaxTokens == 2

TokenAlphabet == {"flash", "monitor", "ls"}

RECURSIVE TokenLists(_)
TokenLists(n) ==
    IF n = 0 THEN {<<>>}
    ELSE TokenLists(n - 1) \cup
         {Append(l, w) : l \in {m \in TokenLists(n - 1) : Len(m) = n - 1},
                         w \in TokenAlphabet}

RecipeTables ==
    UNION {[keys -> RecipePool] : keys \in (SUBSET {"flash", "monitor"}) \ {{}}}

InitRecipe ==
    /\ \E table \in RecipeTables, tokens \in TokenLists(MaxTokens) :
         \E d \in DOMAIN table :
            /\ config = [boot |-> [state |-> NoPolicy], reset |-> [state |-> NoPolicy],
                         default_recipe |-> d, recipes |-> table]
            /\ cli = [recipe |-> tokens, reset |-> None]
    /\ hw = [p \in Pins |-> IdleHw]
    /\ lineIn = [p \in Pins |-> "rLow"]
    /\ pre = [p \in Pins |-> Snapshot(hw[p], lineIn[p])]
    /\ od = [p \in Pins |-> NoPin]
    /\ call = [t \in Threads |-> NoCall]
    /\ pc = [main |-> "select", bg |-> "off"]
    /\ now = 0
    /\ wake = [t \in Threads |-> 0]
    /\ gpio = FALSE
    /\ recipe = None
    /\ child = NoChild
    /\ result = "-"
    /\ tdCount = [p \in Pins |-> 0]
    /\ hwResetRuns = [p \in Pins |-> 0]
    /\ lastSet = [p \in Pins |-> None]
    /\ log = <<>>

NextRecipe == M_Select

SpecRecipe == InitRecipe /\ [][NextRecipe]_vars

----------------------------------------------------------------------------
(* Properties of a single OpenDrainPin (SpecPin) *)

Policy(p) == od[p].final_state[1]

DrivenHigh(p) == hw[p].mode = "rOutput" /\ hw[p].latch = "rHigh"

\* C1: from the moment new has taken the pin over (its into_io has run) until
\* drop begins, the pin is never in Output mode with its level High, at any
\* step of new, set_low and set_open.
C1_NeverDrivenHigh ==
    \A p \in Pins :
        (od[p].life \in {"constructing", "live"} /\ od[p].prev_mode # None)
            => ~DrivenHigh(p)

\* C2: when set(s) (or set_low / set_open) has returned and no other operation
\* has started, the registers are exactly (Output, Low) for s = Low and
\* (Input, pull-up) for s = Open, and the state field is s.
C2_SetPostcondition ==
    \A p \in Pins :
        (od[p].life = "live" /\ ~InProgress(p) /\ lastSet[p] # None) =>
            /\ od[p].state = lastSet[p]
            /\ lastSet[p] = Some("Low") =>
                   hw[p].mode = "rOutput" /\ hw[p].latch = "rLow"
            /\ lastSet[p] = Some("Open") =>
                   hw[p].mode = "rInput" /\ hw[p].pull = "PullUp"

C2_Witness ==
    /\ od[HarnessPin].life = "live"
    /\ ~InProgress(HarnessPin)
    /\ lastSet[HarnessPin] = Some("Low")
    /\ od[HarnessPin].initial_state[1].mode = "Alt3"
    /\ pre[HarnessPin].hw.latch = "rHigh"
    /\ pre[HarnessPin].hw.pull = "PullDown"
    /\ hw[HarnessPin].pull = "PullUp"

\* C3: a pin built with a drop policy that names neither mode nor level and
\* then destroyed is back in the mode it had before new, and the level written
\* is the level it read before new, whatever was set in between.
C3_RoundTrip ==
    \A p \in Pins :
        (od[p].life = "dropped" /\ Policy(p).mode = None /\ Policy(p).level = None)
            => /\ hw[p].mode = pre[p].hw.mode
               /\ hw[p].latch = pre[p].read

C3_Witness ==
    /\ od[HarnessPin].life = "dropped"
    /\ Policy(HarnessPin).mode = None
    /\ Policy(HarnessPin).level = None
    /\ pre[HarnessPin].hw.mode = "rAlt2"
    /\ pre[HarnessPin].hw.latch = "rLow"
    /\ pre[HarnessPin].read = "rHigh"
    /\ lastSet[HarnessPin] = Some("Low")
    /\ hw[HarnessPin].mode = "rAlt2"
    /\ hw[HarnessPin].latch = "rHigh"

\* C4: after destruction the mode and the written level are the drop policy's
\* where it names them and the captured ones where it does not, and the pull
\* is the drop policy's where it names one.
C4_DropPolicy ==
    \A p \in Pins :
        od[p].life = "dropped" =>
            /\ hw[p].mode = IF Policy(p).mode = None
                            THEN pre[p].hw.mode
                            ELSE ModeToRppal(Policy(p).mode[1])
            /\ hw[p].latch = IF Policy(p).level = None
                             THEN pre[p].read
                             ELSE LevelToRppal(Policy(p).level[1])
            /\ Policy(p).pull = Some("High") => hw[p].pull = "PullUp"
            /\ Policy(p).pull = Some("Low") => hw[p].pull = "PullDown"

C4_Witness ==
    /\ od[HarnessPin].life = "dropped"
    /\ Policy(HarnessPin) =
           [mode |-> Some("Output"), level |-> Some("High"), pull |-> Some("Low")]
    /\ pre[HarnessPin].hw = [mode |-> "rAlt0", latch |-> "rLow", pull |-> "Off"]
    /\ pre[HarnessPin].read = "rLow"
    /\ lastSet[HarnessPin] = Some("Open")
    /\ hw[HarnessPin] = [mode |-> "rOutput", latch |-> "rHigh", pull |-> "PullDown"]

----------------------------------------------------------------------------
(* Properties of recipe selection (SpecRecipe) *)

\* C7: no token selects the default recipe; one token that is a key of the
\* table selects that entry; any other token list is run as it stands, the
\* first token as the command and the rest as its arguments, whatever the
\* table holds.
C7_Selection ==
    recipe # None =>
        LET tokens == cli.recipe
            chosen == recipe[1]
            named == Len(tokens) = 1 /\ tokens[1] \in DOMAIN config.recipes
        IN  /\ Len(tokens) = 0 => chosen = config.recipes[config.default_recipe]
            /\ named => chosen = config.recipes[tokens[1]]
            /\ (Len(tokens) > 0 /\ ~named) =>
                   chosen = [command |-> Head(tokens), arguments |-> Tail(tokens)]

C7_Witness ==
    /\ recipe # None
    /\ Len(cli.recipe) = 2
    /\ cli.recipe[1] \in DOMAIN config.recipes
    /\ cli.recipe[1] # config.default_recipe
    /\ recipe[1] = [command |-> "monitor", arguments |-> <<"ls">>]

----------------------------------------------------------------------------
(* Properties of main (Spec) *)

Shape(seq) == [i \in DOMAIN seq |-> <<seq[i].ev, seq[i].pin, seq[i].th>>]

IsPrefix(a, b) == Len(a) <= Len(b) /\ a = SubSeq(b, 1, Len(a))

Where(ev, pin, th) ==
    {i \in DOMAIN log : log[i].ev = ev /\ log[i].pin = pin /\ log[i].th = th}

Happened(ev, pin, th) == Where(ev, pin, th) # {}

\* the time of the first such event
When(ev, pin, th) ==
    log[CHOOSE i \in Where(ev, pin, th) : \A j \in Where(ev, pin, th) : i <= j].t

IsTransition(e) == e.ev \in {"Low", "Open"}

\* the set_low / set_open calls returned before event ev
TransitionsBefore(ev) ==
    LET S == {i \in DOMAIN log : log[i].ev = ev}
        n == IF S = {} THEN Len(log) ELSE (CHOOSE i \in S : \A j \in S : i <= j) - 1
    IN  SelectSeq(SubSeq(log, 1, n), IsTransition)

BootSequence ==
    <<<<"Low", "boot", "main">>, <<"Low", "reset", "main">>, <<"Open", "reset", "main">>>>

\* C5: Drop for OpenDrainPin runs at most once per pin, has run exactly once
\* for every pin that was constructed when main has ended on any path, and
\* the library's reset-on-drop never runs.
C5_TeardownOnce ==
    \A p \in Pins :
        /\ tdCount[p] <= 1
        /\ hwResetRuns[p] = 0
        /\ (pc["main"] = "exited" /\ od[p].life # "none") =>
               od[p].life = "dropped" /\ tdCount[p] = 1

C5_Witness ==
    /\ pc["main"] = "exited"
    /\ result = "Panic"
    /\ child.status = "spawn_failed"
    /\ cli.reset # None
    /\ \A p \in Pins : od[p].life = "dropped" /\ tdCount[p] = 1

\* C6: with a default recipe that the table does not hold, main ends with an
\* error having acquired no GPIO controller, constructed no pin, changed no
\* register and spawned no process, whatever the tokens.
C6_InvalidDefault ==
    config.default_recipe \notin DOMAIN config.recipes =>
        /\ gpio = FALSE
        /\ \A p \in Pins : od[p].life = "none" /\ hw[p] = pre[p].hw
        /\ \A t \in Threads : call[t] = NoCall
        /\ child.status = "none"
        /\ recipe = None
        /\ log = <<>>
        /\ pc["main"] \in {"load", "check", "unwind", "exited"}
        /\ pc["main"] \in {"unwind", "exited"} => result = "Err"

C6_Witness ==
    /\ config.default_recipe \notin DOMAIN config.recipes
    /\ cli.recipe = <<"ls", "-la">>
    /\ cli.reset # None
    /\ pc["main"] = "exited"
    /\ result = "Err"

\* C8 as stated, each offset read up to the overshoot of the sleeps before
\* it: once the recipe has started, the transitions before it are boot Low,
\* reset Low 20 ms later and reset Open 120 ms later, and nothing else, and
\* the recipe started 220 ms after boot Low or later.
C8_BeforeRecipe ==
    Happened("recipe_start", "-", "main") =>
        LET T == TransitionsBefore("recipe_start")
        IN  /\ Shape(T) = BootSequence
            /\ T[2].t - T[1].t \in 20 .. 20 + MaxOversleep
            /\ T[3].t - T[1].t \in 120 .. 120 + 2 * MaxOversleep
            /\ When("recipe_start", "-", "main") >= T[1].t + 220

\* C8, amended: the transitions before the reset task is spawned are boot Low,
\* reset Low 20 ms later and reset Open 100 ms after that (each up to the
\* overshoot of its sleep), in this order and nothing else; the task is
\* spawned, and the recipe started after it, 220 ms after boot Low or later;
\* boot stays Low until the task is spawned.
C8_Schedule ==
    LET T == TransitionsBefore("bg_start")
    IN  /\ IsPrefix(Shape(T), BootSequence)
        /\ Len(T) >= 2 => T[2].t - T[1].t \in 20 .. 20 + MaxOversleep
        /\ Len(T) >= 3 => T[3].t - T[2].t \in 100 .. 100 + MaxOversleep
        /\ Happened("bg_start", "-", "main") =>
               /\ Len(T) = 3
               /\ When("bg_start", "-", "main") >= T[3].t + 100
               /\ When("bg_start", "-", "main") >= T[1].t + 220
        /\ Happened("recipe_start", "-", "main") =>
               /\ Happened("bg_start", "-", "main")
               /\ When("recipe_start", "-", "main") >= When("bg_start", "-", "main")
        /\ (Len(T) >= 1 /\ ~Happened("bg_start", "-", "main")) =>
               /\ od["boot"].state = Some("Low")
               /\ hw["boot"].mode = "rOutput" /\ hw["boot"].latch = "rLow"

\* the reset task's boot Open precedes the start of the recipe
C8_Witness ==
    /\ Happened("recipe_start", "-", "main")
    /\ Shape(TransitionsBefore("bg_start")) = BootSequence
    /\ Shape(TransitionsBefore("recipe_start")) =
           BootSequence \o <<<<"Open", "boot", "bg">>>>
    /\ When("bg_start", "-", "main") = 220

IsBg(e) == e.th = "bg"

BgLog == SelectSeq(log, IsBg)

ResetCycle ==
    <<<<"Open", "boot", "bg">>, <<"Low", "reset", "bg">>, <<"Open", "reset", "bg">>,
      <<"bg_done", "-", "bg">>>>

\* main's pin operations returned after the reset task was spawned
MainAfterSpawn ==
    {i \in DOMAIN log : /\ log[i].th = "main"
                        /\ log[i].pin # "-"
                        /\ \E j \in Where("bg_start", "-", "main") : j < i}

\* C9: with the reset flag and delay D (2000 ms when no value is given) the
\* reset task does boot Open, reset Low, reset Open once and nothing else;
\* reset goes Low D ms after the task was spawned (up to the overshoot of the
\* sleep), whenever the recipe ends; reset Open follows 100 ms later and the
\* task ends 100 ms after that; no pin operation of main after the scope
\* starts before the task has ended.
C9_DelayedReset ==
    cli.reset # None =>
        LET D == IF cli.reset[1] = None THEN 2000 ELSE cli.reset[1][1]
            B == BgLog
        IN  /\ IsPrefix(Shape(B), ResetCycle)
            /\ Len(B) >= 2 =>
                   B[2].t - When("bg_start", "-", "main") \in D .. D + MaxOversleep
            /\ Len(B) >= 3 => B[3].t >= B[2].t + 100
            /\ Len(B) >= 4 => B[4].t >= B[3].t + 100
            /\ (Happened("bg_start", "-", "main") /\ ~Idle("main")) => Len(B) = 4
            /\ \A i \in MainAfterSpawn :
                   \E j \in Where("bg_done", "-", "bg") : j < i

\* the recipe has exited long before the default delay is over, and step 6
\* follows the task's single cycle
C9_Witness ==
    /\ cli.reset = Some(None)
    /\ result = "Ok"
    /\ Len(BgLog) = 4
    /\ BgLog[2].t = When("bg_start", "-", "main") + 2000
    /\ When("recipe_exit", "-", "main") = When("bg_start", "-", "main") + 10
    /\ \E i \in MainAfterSpawn : log[i].ev = "Low" /\ log[i].pin = "reset"

\* C10: without the reset flag the reset task performs no pin operation, and
\* from the end of step 4 until step 6 begins both pins keep their registers:
\* boot Low (Output, Low), reset Open (Input, pull-up).
C10_NoFlagNoOp ==
    cli.reset = None =>
        /\ IsPrefix(Shape(BgLog), <<<<"bg_done", "-", "bg">>>>)
        /\ call["bg"] = NoCall
        /\ pc["main"] \in {"zz43", "spawn", "select", "execute", "wait_child",
                           "join71", "scope_panic", "boot_open76"} =>
               /\ hw["boot"] = [mode |-> "rOutput", latch |-> "rLow", pull |-> "PullUp"]
               /\ hw["reset"] = [mode |-> "rInput", latch |-> "rLow", pull |-> "PullUp"]
               /\ od["boot"].state = Some("Low")
               /\ od["reset"].state = Some("Open")

C10_Witness ==
    /\ cli.reset = None
    /\ pc["main"] = "boot_open76"
    /\ Idle("main")
    /\ child = [status |-> "exited", code |-> 1]
    /\ now >= 3220
    /\ pc["bg"] = "done"

\* main's set_low / set_open calls returned after the reset task was spawned
Step6Transitions == {i \in MainAfterSpawn : IsTransition(log[i])}

C12_NoPartialState ==
    (result = "Err" /\ gpio) =>
        \A p \in Pins : hw[p] = pre[p].hw /\ od[p].life = "none"

\* C13: no two threads are ever inside a pin operation (set_low, set_open,
\* new or teardown) at once, on the same pin or on different ones, so no
\* operation on a pin starts while another on it is between its steps.
C13_NoOverlap ==
    /\ Cardinality({t \in Threads : ~Idle(t)}) <= 1
    /\ \A p \in Pins :
           Cardinality({t \in Threads : call[t].op # "none" /\ call[t].pin = p}) <= 1
    /\ ~Idle("bg") => pc["main"] \in {"select", "execute", "wait_child",
                                      "join71", "scope_panic"}

\* the reset task is between the steps of set_low while the recipe still runs
C13_Witness ==
    /\ call["bg"].op = "set_low"
    /\ call["bg"].pin = "reset"
    /\ call["bg"].step = 3
    /\ pc["main"] = "wait_child"
    /\ child.status = "running"
    /\ Idle("main")

\* C14: step 6 (from boot set_open of line 76 on, up to the return) runs only
\* when the recipe process has exited and the reset task has finished, and
\* the log holds both ends before the first transition of step 6.
C14_Step6AfterBoth ==
    /\ pc["main"] \in {"sleep77", "zz77", "reset_low80", "sleep83", "zz83",
                       "reset_open84", "return88"} =>
           /\ child.status = "exited"
           /\ pc["bg"] = "done"
    /\ \A i \in Step6Transitions :
           /\ \E j \in Where("recipe_exit", "-", "main") : j < i
           /\ \E j \in Where("bg_done", "-", "bg") : j < i

\* the recipe ends long after the reset task, and step 6 has begun
C14_Witness ==
    /\ cli.reset = Some(Some(0))
    /\ pc["main"] = "zz77"
    /\ \E i \in Where("bg_done", "-", "bg") :
           \E j \in Where("recipe_exit", "-", "main") : i < j /\ log[j].t >= 3220
    /\ Step6Transitions # {}

\* Scheduling: both threads are OS threads and every step of theirs is a
\* finite machine operation, a sleep that ends or a wait on a child that exits,
\* so a step that stays possible is eventually taken.
\* Termination does not depend on what the pins held before the run, so the
\* fair specification starts from the setup without a teardown policy.
FairInit == Init /\ config.boot.state = NoPolicy

FairSpec == FairInit /\ [][Next]_vars /\ WF_vars(Next)

\* C15: the reset task, once spawned, always runs to its end (whether the
\* recipe exits first, last or cannot be started), and once both pins are
\* constructed the program always reaches the point where both are torn down.
C15_Completion ==
    /\ (pc["bg"] # "off") ~> (pc["bg"] = "done")
    /\ (\A p \in Pins : od[p].life = "live") ~> (\A p \in Pins : od[p].life = "dropped")

\* the recipe failed before the reset task had slept its delay; the task still
\* ran its whole cycle and both pins were torn down afterwards
C15_Witness ==
    /\ cli.reset = Some(None)
    /\ child.status = "spawn_failed"
    /\ pc["bg"] = "done"
    /\ Shape(BgLog) = ResetCycle
    /\ \E i \in Where("recipe_failed", "-", "main") :
           \A j \in Where("Open", "boot", "bg") : i < j
    /\ \A p \in Pins : od[p].life = "dropped"

\* C16: whenever a constructed pin has no operation in progress, its state
\* field is Low exactly when the registers are (Output, Low) and Open exactly
\* when they are (Input, pull-up); new stores the state it was asked for and
\* finishes through the set operation of that state.
C16_StateMatchesHardware ==
    /\ \A p \in Pins :
           (od[p].life = "live" /\ ~InProgress(p)) =>
               /\ od[p].state \in {Some("Low"), Some("Open")}
               /\ od[p].state = Some("Low") <=>
                      (hw[p].mode = "rOutput" /\ hw[p].latch = "rLow")
               /\ od[p].state = Some("Open") <=>
                      (hw[p].mode = "rInput" /\ hw[p].pull = "PullUp")
    /\ \A t \in Threads :
           (call[t].op \in {"set_low", "set_open"} /\ call[t].outer = "new") =>
               /\ od[call[t].pin].state = Some(call[t].arg)
               /\ call[t].op = (IF call[t].arg = "Low" THEN "set_low" ELSE "set_open")

\* new(pin, Open, policy) has returned on a pin that was an output driving
\* High with a pull-down; the latch still High shows no set_low ever ran
C16_Witness ==
    /\ od[HarnessPin].life = "live"
    /\ ~InProgress(HarnessPin)
    /\ od[HarnessPin].state = Some("Open")
    /\ pre[HarnessPin].hw = [mode |-> "rOutput", latch |-> "rHigh", pull |-> "PullDown"]
    /\ hw[HarnessPin] = [mode |-> "rInput", latch |-> "rHigh", pull |-> "PullUp"]

\* C17: a teardown whose policy names no pull never changes the pull: after it
\* the pull is what it was just before (pull-up once set_open has run, since
\* set_low and a later set_open keep a pull-up); a policy that names a pull
\* leaves that pull.
C17_PullKept ==
    /\ [][\A p \in Pins :
            (od'[p].life \in {"dropping", "dropped"} /\ od[p].final_state # None
                 /\ od[p].final_state[1].pull = None)
                => hw'[p].pull = hw[p].pull]_vars
    /\ [][\A p \in Pins :
            (od[p].life = "live" /\ od'[p].life = "live" /\ hw[p].pull = "PullUp")
                => hw'[p].pull = "PullUp"]_vars
    /\ [](\A p \in Pins :
            (od[p].life = "dropped" /\ od[p].final_state[1].pull # None)
                => hw[p].pull = LevelToPull(od[p].final_state[1].pull[1]))

\* torn down without a pull in the policy, after set_open and then set_low:
\* the pull-up stays, the pull-down from before new is not restored
C17_Witness ==
    /\ od[HarnessPin].life = "dropped"
    /\ od[HarnessPin].final_state[1].pull = None
    /\ lastSet[HarnessPin] = Some("Low")
    /\ pre[HarnessPin].hw.pull = "PullDown"
    /\ hw[HarnessPin].pull = "PullUp"

\* C18: set_low on a pin already Low and set_open on a pin already Open change
\* no register and not the state field at any of their steps, so calling twice
\* equals calling once; and whatever calls came before, the state field and
\* the mode after a set call are those of the last call.
C18_Idempotent ==
    /\ [][\A t \in Threads :
            (call[t].op \in {"set_low", "set_open"}
                 /\ od[call[t].pin].life = "live" /\ call[t].outer # "new"
                 /\ lastSet[call[t].pin] =
                        Some(IF call[t].op = "set_low" THEN "Low" ELSE "Open"))
                => /\ hw'[call[t].pin] = hw[call[t].pin]
                   /\ od'[call[t].pin].state = od[call[t].pin].state]_vars
    /\ [](\A p \in Pins :
            (od[p].life = "live" /\ ~InProgress(p) /\ lastSet[p] # None)
                => /\ od[p].state = lastSet[p]
                   /\ hw[p].mode = StateToRppalMode(lastSet[p][1]))

\* a second set_low in a row has made its three register accesses on a pin
\* that an earlier set_open gave a pull-up
C18_Witness ==
    /\ od[HarnessPin].life = "live"
    /\ call["main"] = [Frame("set_low", HarnessPin, "Low", None, "direct")
                          EXCEPT !.step = 4]
    /\ lastSet[HarnessPin] = Some("Low")
    /\ pre[HarnessPin].hw.pull = "Off"
    /\ hw[HarnessPin] = [mode |-> "rOutput", latch |-> "rLow", pull |-> "PullUp"]

\* reset is held Low or is inside a set_low at this moment
ResetPulsing ==
    /\ od["reset"].life = "live"
    /\ \/ od["reset"].state = Some("Low")
       \/ \E t \in Threads : call[t].op = "set_low" /\ call[t].pin = "reset"

AllTransitions == SelectSeq(log, IsTransition)

Step6Sequence ==
    <<<<"Open", "boot", "main">>, <<"Low", "reset", "main">>, <<"Open", "reset", "main">>>>

\* C19: the reset pulse before the reset task is spawned happens with boot
\* Low, every reset pulse after that with boot Open; on a run that returns Ok
\* the transitions are those of steps 2-4, then the reset task's cycle if the
\* flag was given, then boot Open, reset Low 20 ms later and reset Open 100 ms
\* after that (each up to the overshoot of its sleep); and both pins are in
\* state Open, (Input, pull-up), when their teardown starts.
C19_PulseDiscipline ==
    /\ ResetPulsing =>
           IF Happened("bg_start", "-", "main")
           THEN /\ od["boot"].state = Some("Open")
                /\ hw["boot"].mode = "rInput"
                /\ \A t \in Threads : call[t].pin # "boot"
           ELSE /\ od["boot"].state = Some("Low")
                /\ hw["boot"].mode = "rOutput" /\ hw["boot"].latch = "rLow"
    /\ result = "Ok" =>
           LET T == AllTransitions
               n == Len(T)
           IN  /\ n = IF cli.reset = None THEN 6 ELSE 9
               /\ Shape(SubSeq(T, 1, 3)) = BootSequence
               /\ Shape(SubSeq(T, 4, n - 3)) =
                      IF cli.reset = None THEN <<>> ELSE SubSeq(ResetCycle, 1, 3)
               /\ Shape(SubSeq(T, n - 2, n)) = Step6Sequence
               /\ T[n - 1].t - T[n - 2].t \in BootDelay .. BootDelay + MaxOversleep
               /\ T[n].t - T[n - 1].t \in ResetPulse .. ResetPulse + MaxOversleep
    /\ (result = "Ok" /\ pc["main"] = "unwind") =>
           \A p \in Pins :
               od[p].life = "live" =>
                   /\ od[p].state = Some("Open")
                   /\ hw[p].mode = "rInput" /\ hw[p].pull = "PullUp"

\* a successful run with the delayed reset, at the start of the teardown
C19_Witness ==
    /\ result = "Ok"
    /\ pc["main"] = "unwind"
    /\ Idle("main")
    /\ \A p \in Pins : od[p].life = "live"
    /\ cli.reset = Some(None)
    /\ child = [status |-> "exited", code |-> 0]
    /\ Len(AllTransitions) = 9

\* C20: once the teardown of a pin has begun, no thread is in or will finish a
\* set_low / set_open / new on it, the reset task is over (or was never
\* spawned), and the log holds no transition of the pin nor the end of the
\* reset task after the pin's drop.
C20_NoUseAfterTeardown ==
    \A p \in Pins :
        /\ od[p].life \in {"dropping", "dropped"} =>
               /\ pc["bg"] \in {"off", "done"}
               /\ \A t \in Threads :
                      call[t].pin = p => call[t].op = "drop" /\ t = "main"
               /\ pc["main"] \in {"unwind", "exited"}
        /\ \A i \in Where("drop", p, "main") :
               \A j \in DOMAIN log :
                   j > i => /\ ~(IsTransition(log[j]) /\ log[j].pin = p)
                            /\ log[j].th = "main"

\* the recipe could not be started while the reset task was still asleep; the
\* task ran its cycle all the same and only then were the pins torn down
C20_Witness ==
    /\ child.status = "spawn_failed"
    /\ cli.reset = Some(None)
    /\ \A p \in Pins : od[p].life = "dropped"
    /\ \E f \in Where("recipe_failed", "-", "main") :
       \E o \in Where("Open", "boot", "bg") :
       \E e \in Where("bg_done", "-", "bg") :
       \E d \in Where("drop", "reset", "main") :
           /\ f < o /\ o < e /\ e < d
           /\ log[o].t >= log[f].t + DefaultResetDelay
           /\ log[d].t >= log[o].t + 2 * ResetPulse

====
